---- MODULE Spec2Model ----
(***************************************************************************)
(* vectorbt/portfolio/decorators.py: attach_returns_acc_methods(config).   *)
(* The class decorator attaches, for every entry of config, a forwarding   *)
(* method get_<target> and a property <target> to the decorated class.     *)
(* The model covers the decorator's run over a class (wrapper), the        *)
(* synthesized function objects, and calls of the synthesized members on   *)
(* instances of the decorated classes.                                     *)
(***************************************************************************)
EXTENDS Naturals, Sequences, FiniteSets, TLC

VARIABLES
    config,     \* the Config object given to attach_returns_acc_methods
    members,    \* members[c][n]: attribute n of class c (its __dict__)
    pc,         \* pc[c]: position of wrapper(c)
    idx,        \* pc[c] = "attaching": index of the config item being processed
    sub,        \* "method" before line 59 of the current item, "prop" after it
    ret,        \* ret[c]: what wrapper(c) returned
    trace,      \* trace[c]: the steps wrapper(c) has executed, in order
    made,       \* made[c]: the function objects wrapper(c) has defined, in order
    synth,      \* synth[c]: config as it was when wrapper(c) was called
    mutations,  \* number of changes made to config by its owner
    last        \* the most recent call of a member on an instance

vars == <<config, members, pc, idx, sub, ret, trace, made, synth, mutations, last>>

\* ---------------------------------------------------------------- bounds

MaxEntries == 2
MaxMutations == 1

\* ---------------------------------------------------------------- values

None == "None"
Absent == "<absent>"

Classes == {"P1", "P2", "Q"}
\* The classes that derive from Portfolio (Q does not).
PortfolioSubclasses == {"P1", "P2"}
\* One instance of every class that derives from Portfolio.
Instances == {"p1", "p2"}
TypeOf(self) == IF self = "p1" THEN "P1" ELSE "P2"

Targets == {"a", "get_a", "b"}
MemberNames == Targets \cup {"get_" \o t : t \in Targets}
\* Members a class defines itself, before it is decorated.
OwnMembers(c) == IF c = "Q" THEN {"a"} ELSE IF c = "P1" THEN {"b"} ELSE {}

SettingsSpace ==
    { [source_name |-> Absent, docstring |-> Absent],
      [source_name |-> "x", docstring |-> "Doc."] }
Entries == { [target_name |-> t, settings |-> s] : t \in Targets, s \in SettingsSpace }

UniqueKeys(cfg) ==
    \A i, j \in 1..Len(cfg) : cfg[i].target_name = cfg[j].target_name => i = j
Configs ==
    { cfg \in UNION { [1..n -> Entries] : n \in 0..MaxEntries } : UniqueKeys(cfg) }

AbsentMember == [kind |-> "absent"]
OrigMember == [kind |-> "orig"]
\* The attributes of class c before it is decorated.
InitialMembers(c) ==
    [n \in MemberNames |-> IF n \in OwnMembers(c) THEN OrigMember ELSE AbsentMember]

\* ------------------------------------------------- wrapper: helper steps

\* checks.assert_subclass_of(cls, "Portfolio"): TRUE when it does not raise.
assert_subclass_of(c) == c \in PortfolioSubclasses

\* settings.get(key, default)
SettingsGet(settings, key, default) ==
    IF settings[key] = Absent THEN default ELSE settings[key]

\* Variant: the closure reads source_name late and sees the last item's value.
SourceNameLast(cfg, i) ==
    SettingsGet(cfg[Len(cfg)].settings, "source_name", cfg[Len(cfg)].target_name)
\* line 30: source_name of the i-th item
SourceNameAt(cfg, i) ==
    SettingsGet(cfg[i].settings, "source_name", cfg[i].target_name)

\* line 31: docstring of the i-th item (the backquotes of the text are left out)
DocstringAt(cfg, i) ==
    SettingsGet(cfg[i].settings, "docstring",
        "See vectorbt.returns.accessors.ReturnsAccessor." \o SourceNameAt(cfg, i) \o ".")

\* lines 33-58: the function object new_method defined for the i-th item
NewMethodObj(c, cfg, i) ==
    [ kind |-> "function", impl |-> "new_method",
      name |-> "get_" \o cfg[i].target_name,
      qualname |-> c \o ".get_" \o cfg[i].target_name,
      doc |-> DocstringAt(cfg, i),
      source_name_default |-> SourceNameAt(cfg, i) ]

\* lines 61-66: the function object new_prop defined for the i-th item
NewPropObj(c, cfg, i) ==
    [ kind |-> "function", impl |-> "new_prop",
      name |-> cfg[i].target_name,
      qualname |-> c \o "." \o cfg[i].target_name,
      doc |-> c \o ".get_" \o cfg[i].target_name \o " with default arguments.",
      target_name_default |-> cfg[i].target_name ]

\* property(new_prop)
Property(f) == [kind |-> "property", fget |-> f]

\* Variant: the attribute is set on the shared base, so on every subclass.
SetAttrShared(mem, c, name, val) ==
    [d \in Classes |->
        IF d \in PortfolioSubclasses \cup {c} THEN [mem[d] EXCEPT ![name] = val] ELSE mem[d]]
\* setattr(cls, name, val)
SetAttr(mem, c, name, val) == [mem EXCEPT ![c][name] = val]

\* Variant: the property is attached under the name of the method.
PropMemberNameClash(f) == "get_" \o f.name
\* line 67: the name the property is attached under, new_prop.__name__
PropMemberName(f) == f.name

\* Variant: wrapper has no return statement.
ReturnNone(c) == None
\* line 68: return cls
ReturnValue(c) == c

Idle == \A c \in Classes : pc[c] \in {"unvalidated", "done", "failed"}

\* ------------------------------------------------------- wrapper: steps

\* line 26: wrapper(cls) is called (once per class)
Enter(c) ==
    /\ Idle
    /\ pc[c] = "unvalidated"
    /\ pc' = [pc EXCEPT ![c] = "validating"]
    /\ synth' = [synth EXCEPT ![c] = config]
    /\ trace' = [trace EXCEPT ![c] = <<>>]
    /\ UNCHANGED <<config, members, idx, sub, ret, made, mutations, last>>

\* Variant: wrapper goes on to attach whatever the check finds.
ValidateSkipped(c) ==
    /\ pc[c] = "validating"
    /\ trace' = [trace EXCEPT ![c] = Append(@, [step |-> "check", ok |-> TRUE])]
    /\ pc' = [pc EXCEPT ![c] = "attaching"]
    /\ idx' = 1
    /\ sub' = "method"
    /\ UNCHANGED <<config, members, ret, made, synth, mutations, last>>
\* line 27: the capability check; it raises out of wrapper when it fails
Validate(c) ==
    /\ pc[c] = "validating"
    /\ trace' = [trace EXCEPT ![c] = Append(@, [step |-> "check", ok |-> assert_subclass_of(c)])]
    /\ \/ /\ assert_subclass_of(c)
          /\ pc' = [pc EXCEPT ![c] = "attaching"]
          /\ idx' = 1
          /\ sub' = "method"
       \/ /\ ~assert_subclass_of(c)
          /\ pc' = [pc EXCEPT ![c] = "failed"]
          /\ UNCHANGED <<idx, sub>>
    /\ UNCHANGED <<config, members, ret, made, synth, mutations, last>>

\* lines 30-59: define new_method for the current item and attach it
AttachMethod(c) ==
    /\ pc[c] = "attaching"
    /\ idx <= Len(config)
    /\ sub = "method"
    /\ LET f == NewMethodObj(c, config, idx) IN
         /\ members' = SetAttr(members, c, f.name, f)
         /\ made' = [made EXCEPT ![c] = Append(@, f)]
         /\ trace' = [trace EXCEPT ![c] =
                         Append(@, [step |-> "attach", item |-> idx, name |-> f.name, what |-> "method"])]
    /\ sub' = "prop"
    /\ UNCHANGED <<config, pc, idx, ret, synth, mutations, last>>

\* lines 61-67: define new_prop for the current item and attach property(new_prop)
AttachProp(c) ==
    /\ pc[c] = "attaching"
    /\ idx <= Len(config)
    /\ sub = "prop"
    /\ LET f == NewPropObj(c, config, idx) IN
         /\ members' = SetAttr(members, c, PropMemberName(f), Property(f))
         /\ made' = [made EXCEPT ![c] = Append(@, f)]
         /\ trace' = [trace EXCEPT ![c] =
                         Append(@, [step |-> "attach", item |-> idx, name |-> PropMemberName(f), what |-> "property"])]
    /\ sub' = "method"
    /\ idx' = idx + 1
    /\ UNCHANGED <<config, pc, ret, synth, mutations, last>>

\* line 68: the loop is over, wrapper returns
Return(c) ==
    /\ pc[c] = "attaching"
    /\ idx > Len(config)
    /\ pc' = [pc EXCEPT ![c] = "done"]
    /\ ret' = [ret EXCEPT ![c] = ReturnValue(c)]
    /\ trace' = [trace EXCEPT ![c] = Append(@, [step |-> "return"])]
    /\ UNCHANGED <<config, members, idx, sub, made, synth, mutations, last>>

WrapperStep(c) == Enter(c) \/ Validate(c) \/ AttachMethod(c) \/ AttachProp(c) \/ Return(c)

\* ------------------------------------------- the owner of config changes it

\* config[target]['source_name'] = v
ChangeEntry ==
    \E i \in 1..Len(config) :
        /\ config[i].settings.source_name # "y"
        /\ config' = [config EXCEPT ![i].settings.source_name = "y"]

\* del config[target]
RemoveEntry ==
    \E i \in 1..Len(config) :
        config' = [k \in 1..(Len(config) - 1) |-> IF k < i THEN config[k] ELSE config[k + 1]]

\* config[target] = settings, for a new target
AddEntry ==
    /\ Len(config) < MaxEntries
    /\ \E e \in Entries :
        /\ \A k \in 1..Len(config) : config[k].target_name # e.target_name
        /\ e.settings.docstring = Absent
        /\ config' = Append(config, e)

MutateConfig ==
    /\ Idle
    /\ \E c \in Classes : pc[c] = "done"
    /\ mutations < MaxMutations
    /\ mutations' = mutations + 1
    /\ (ChangeEntry \/ RemoveEntry \/ AddEntry)
    /\ UNCHANGED <<members, pc, idx, sub, ret, trace, made, synth, last>>

\* ------------------------------------------------ calls: the inputs

\* Names a companion object may expose: the targets, and the source names
\* the configuration and its owner use.
SourceNames == Targets \cup {"x", "y"}

\* A companion object as the factory may return it: the methods it has,
\* and those of them that declare a parameter named jitted.
Shapes ==
    { [methods |-> SourceNames, jitted |-> SourceNames],
      [methods |-> Targets, jitted |-> {}],
      [methods |-> {"x"}, jitted |-> {"x"}] }

\* lines 35-42: every parameter at its default
DefaultArgs ==
    [ group_by |-> None, benchmark_rets |-> None, freq |-> None, year_freq |-> None,
      use_asset_returns |-> FALSE, jitted |-> None, _source_name |-> Absent, kwargs |-> {} ]

\* The keyword arguments a caller gives a synthesized method.
ArgCases ==
    { DefaultArgs,
      [DefaultArgs EXCEPT !.group_by = "g", !.freq = "1D", !.jitted = "nb"],
      [DefaultArgs EXCEPT !.benchmark_rets = "bm", !.year_freq = "365D", !.use_asset_returns = TRUE],
      [DefaultArgs EXCEPT !.jitted = "nb", !.kwargs = {<<"rf", "0.01">>}],
      [DefaultArgs EXCEPT !._source_name = "x", !.kwargs = {<<"rf", "0.01">>}] }

Raise(exc) == [kind |-> "raise", exc |-> exc]
Value(v) == [kind |-> "value", v |-> v]
Bound(f) == [kind |-> "bound", f |-> f]

\* kwargs[key] = val
DictSet(d, key, val) == {p \in d : p[1] # key} \cup {<<key, val>>}

\* ------------------------------------------------- calls: new_method

\* self.get_returns_acc(**kw): the companion object of this call
get_returns_acc(self, kw, shape) == [owner |-> self, kw |-> kw, shape |-> shape]

\* Variant: freq and year_freq are given to the factory in each other's place.
FactoryKwargsSwapped(args) ==
    [ group_by |-> args.group_by, benchmark_rets |-> args.benchmark_rets,
      freq |-> args.year_freq, year_freq |-> args.freq,
      use_asset_returns |-> args.use_asset_returns, jitted |-> args.jitted ]
\* lines 44-49: the keyword arguments given to the factory
FactoryKwargs(args) ==
    [ group_by |-> args.group_by, benchmark_rets |-> args.benchmark_rets,
      freq |-> args.freq, year_freq |-> args.year_freq,
      use_asset_returns |-> args.use_asset_returns, jitted |-> args.jitted ]

\* line 41: _source_name is the caller's value, else the default bound at definition
LookupName(f, args) ==
    IF args._source_name = Absent THEN f.source_name_default ELSE args._source_name

\* Variant: a failed lookup is remembered and fails the next call too.
LookupFailsSticky(acc, name) ==
    \/ name \notin acc.shape.methods
    \/ /\ last.op # "none"
       /\ last.out = Raise("AttributeError")
\* line 51: getattr(returns_acc, _source_name) raises AttributeError
LookupFails(acc, name) == name \notin acc.shape.methods

\* get_func_arg_names(ret_method)
get_func_arg_names(m) ==
    IF m.name \in m.on.shape.jitted THEN {"jitted", "rf"} ELSE {"rf"}

\* Variant: jitted is forwarded without looking at the signature.
ForwardJittedAlways(arg_names) == TRUE
\* line 52
ForwardJitted(arg_names) == "jitted" \in arg_names

\* Variant: _source_name is no named parameter and lands in **kwargs.
CompanionKwargsAll(args) ==
    IF args._source_name = Absent THEN args.kwargs
    ELSE DictSet(args.kwargs, "_source_name", args._source_name)
\* line 42: **kwargs holds the keyword arguments that are no named parameter
CompanionKwargs(args) == args.kwargs

\* ret_method(**kwargs): the result of the companion's method
CallCompanion(m, kwargs) == [result_of |-> m.name, on |-> m.on, kwargs |-> kwargs]

\* lines 43-54
new_method(self, f, args, shape) ==
    LET kw == FactoryKwargs(args)
        returns_acc == get_returns_acc(self, kw, shape)
        name == LookupName(f, args)
        e1 == [ev |-> "enter", f |-> f, args |-> args]
        e2 == [ev |-> "factory", self |-> self, kw |-> kw, acc |-> returns_acc]
        e3 == [ev |-> "getattr", on |-> returns_acc, name |-> name]
    IN  IF LookupFails(returns_acc, name)
        THEN [events |-> <<e1, e2, e3>>, out |-> Raise("AttributeError")]
        ELSE LET ret_method == [on |-> returns_acc, name |-> name]
                 arg_names == get_func_arg_names(ret_method)
                 kwargs == IF ForwardJitted(arg_names)
                           THEN DictSet(CompanionKwargs(args), "jitted", args.jitted)
                           ELSE CompanionKwargs(args)
                 e4 == [ev |-> "argnames", of |-> ret_method, names |-> arg_names]
                 result == CallCompanion(ret_method, kwargs)
                 e5 == [ev |-> "invoke", method |-> ret_method, kwargs |-> kwargs,
                        result |-> result]
             IN  [events |-> <<e1, e2, e3, e4, e5>>, out |-> Value(result)]

\* --------------------------------------------------- calls: new_prop

\* r(**args) for the outcome r of an attribute lookup: a bound synthesized
\* method runs new_method; the values in this model are data, not callables.
CallObj(self, r, args, shape) ==
    CASE r.out.kind = "raise" -> r
      [] r.out.kind = "bound" ->
            LET m == new_method(self, r.out.f, args, shape)
            IN  [events |-> r.events \o m.events, out |-> m.out]
      [] OTHER -> [events |-> r.events, out |-> Raise("TypeError")]

\* Variant: the property asks for asset returns.
PropCallArgsAssets == [DefaultArgs EXCEPT !.use_asset_returns = TRUE]
\* line 62: the call has no arguments
PropCallArgs == DefaultArgs

RECURSIVE GetAttr(_, _, _)
RECURSIVE new_prop(_, _, _)

\* getattr(self, name): a function of the class is bound, a property is evaluated
GetAttr(self, name, shape) ==
    LET m == members[TypeOf(self)][name] IN
    CASE m.kind = "function" -> [events |-> <<>>, out |-> Bound(m)]
      [] m.kind = "property" -> new_prop(self, m.fget, shape)
      [] m.kind = "orig" -> [events |-> <<>>, out |-> Value([result_of |-> name])]
      [] OTHER -> [events |-> <<>>, out |-> Raise("AttributeError")]

\* line 62
new_prop(self, f, shape) ==
    CallObj(self, GetAttr(self, "get_" \o f.target_name_default, shape), PropCallArgs, shape)

\* ------------------------------------------------------ calls: actions

\* What the call before this one was: how it ended, and whether its caller
\* gave _source_name.
Previous ==
    IF last.op = "none" THEN [out |-> "none", override |-> FALSE]
    ELSE [out |-> last.out.kind, override |-> last.args._source_name # Absent]

SynthTargets(c) == {synth[c][i].target_name : i \in 1..Len(synth[c])}

\* self.get_<t>(**args)
InvokeMethod(self, t, args, shape) ==
    /\ Idle
    /\ pc[TypeOf(self)] = "done"
    /\ t \in SynthTargets(TypeOf(self))
    /\ LET r == CallObj(self, GetAttr(self, "get_" \o t, shape), args, shape) IN
        last' = [ op |-> "invoke", self |-> self, target |-> t, args |-> args,
                  shape |-> shape, mut |-> mutations, prev |-> Previous,
                  events |-> r.events, out |-> r.out ]
    /\ UNCHANGED <<config, members, pc, idx, sub, ret, trace, made, synth, mutations>>

\* self.<t>
ReadProperty(self, t, shape) ==
    /\ Idle
    /\ pc[TypeOf(self)] = "done"
    /\ t \in SynthTargets(TypeOf(self))
    /\ LET r == GetAttr(self, t, shape) IN
        last' = [ op |-> "read", self |-> self, target |-> t, args |-> DefaultArgs,
                  shape |-> shape, mut |-> mutations, prev |-> Previous,
                  events |-> r.events, out |-> r.out ]
    /\ UNCHANGED <<config, members, pc, idx, sub, ret, trace, made, synth, mutations>>

\* ------------------------------------------------------------------ spec

NoCall == [op |-> "none"]

Init ==
    /\ config \in Configs
    /\ members = [c \in Classes |-> InitialMembers(c)]
    /\ pc = [c \in Classes |-> "unvalidated"]
    /\ idx = 1
    /\ sub = "method"
    /\ ret = [c \in Classes |-> Absent]
    /\ trace = [c \in Classes |-> <<>>]
    /\ made = [c \in Classes |-> <<>>]
    /\ synth = [c \in Classes |-> <<>>]
    /\ mutations = 0
    /\ last = NoCall

Calls(self) ==
    \E t \in Targets, shape \in Shapes :
        \/ \E args \in ArgCases : InvokeMethod(self, t, args, shape)
        \/ ReadProperty(self, t, shape)

\* A module decorates P1 and tries to decorate Q; p1 is used.
Next ==
    \/ \E c \in {"P1", "Q"} : WrapperStep(c)
    \/ Calls("p1")

Spec == Init /\ [][Next]_vars

\* wrapper runs to its end once called: it is straight-line synchronous code
Running(c) == Validate(c) \/ AttachMethod(c) \/ AttachProp(c) \/ Return(c)
FairSpec == Spec /\ WF_vars(\E c \in Classes : Running(c))

\* A module decorates P1; the owner of config changes it afterwards; the
\* methods of p1 are called without arguments.
NextMut ==
    \/ WrapperStep("P1")
    \/ MutateConfig
    \/ \E t \in Targets, shape \in Shapes : InvokeMethod("p1", t, DefaultArgs, shape)

SpecMut == Init /\ [][NextMut]_vars

\* A module decorates P1 and P2 with the same config; p1 and p2 are used.
NextTwo ==
    \/ \E c \in {"P1", "P2"} : WrapperStep(c)
    \/ \E self \in Instances : Calls(self)

SpecTwo == Init /\ [][NextTwo]_vars

\* ---------------------------------------------------------------- claims

\* The source name an entry asks for: its source_name, the target name when omitted.
ExpectedSource(e) ==
    IF e.settings.source_name = Absent THEN e.target_name ELSE e.settings.source_name

\* No target name is "get_" followed by another target name.
NoClash(cfg) ==
    \A i, j \in 1..Len(cfg) : cfg[i].target_name # "get_" \o cfg[j].target_name

IsMethodFor(m, c, e) ==
    /\ m.kind = "function"
    /\ m.impl = "new_method"
    /\ m.name = "get_" \o e.target_name
    /\ m.source_name_default = ExpectedSource(e)

IsPropertyFor(m, c, e) ==
    /\ m.kind = "property"
    /\ m.fget.impl = "new_prop"
    /\ m.fget.name = e.target_name
    /\ m.fget.target_name_default = e.target_name

EveryEntryAttached(c) ==
    /\ Len(made[c]) = 2 * Len(synth[c])
    /\ \A i \in 1..Len(synth[c]) :
        /\ members[c]["get_" \o synth[c][i].target_name] = made[c][2 * i - 1]
        /\ IsMethodFor(made[c][2 * i - 1], c, synth[c][i])
        /\ members[c][synth[c][i].target_name] = Property(made[c][2 * i])
        /\ IsPropertyFor(Property(made[c][2 * i]), c, synth[c][i])

\* C1 as stated: after wrapper(c) has returned, for ANY configuration of
\* unique target names, every entry t has its own method at get_<t> and its
\* own property at <t>; none is missing or replaced by another entry's member.
C1_AnyConfiguration ==
    \A c \in Classes : pc[c] = "done" => EveryEntryAttached(c)

\* C1 amended: the same, for configurations in which no target name is
\* "get_" followed by another target name.
C1_EveryEntryAttached ==
    \A c \in Classes : (pc[c] = "done" /\ NoClash(synth[c])) => EveryEntryAttached(c)

C1_Witness ==
    /\ pc["P1"] = "done"
    /\ Len(synth["P1"]) = 2
    /\ NoClash(synth["P1"])
    /\ synth["P1"][1].target_name = "get_a"
    /\ members["P1"]["get_get_a"] = made["P1"][1]
    /\ members["P1"]["get_a"] = Property(made["P1"][2])
    /\ members["P1"]["get_b"] = made["P1"][3]
    /\ members["P1"]["b"] = Property(made["P1"][4])

\* The method and the property function synthesized for the entry with
\* target name t of class c.
ItemOf(c, t) == CHOOSE i \in 1..Len(synth[c]) : synth[c][i].target_name = t
MethodOfEntry(c, t) == made[c][2 * ItemOf(c, t) - 1]
PropOfEntry(c, t) == made[c][2 * ItemOf(c, t)]

\* The class still has the members synthesized for entry t under get_<t> and <t>.
Intact(c, t) ==
    /\ members[c]["get_" \o t] = MethodOfEntry(c, t)
    /\ members[c][t] = Property(PropOfEntry(c, t))

NoArguments ==
    [ group_by |-> None, benchmark_rets |-> None, freq |-> None, year_freq |-> None,
      use_asset_returns |-> FALSE, jitted |-> None, _source_name |-> Absent, kwargs |-> {} ]

PropertyEqualsMethod ==
    last.out = new_method(last.self, MethodOfEntry(TypeOf(last.self), last.target),
                          NoArguments, last.shape).out

\* C2 as stated: reading property <t> gives exactly what the method
\* synthesized for the same entry gives when called with no arguments,
\* whatever the rest of the configuration contains.
C2_WhateverTheConfiguration ==
    last.op = "read" => PropertyEqualsMethod

\* C2 amended: the same, provided the class still has the method and the
\* property synthesized for that entry under get_<t> and <t>, as it has for
\* every entry when no target name is "get_" followed by another target name.
C2_PropertyEqualsMethod ==
    /\ (last.op = "read" /\ Intact(TypeOf(last.self), last.target)) => PropertyEqualsMethod
    /\ \A c \in Classes : (pc[c] = "done" /\ NoClash(synth[c])) =>
          \A t \in SynthTargets(c) : Intact(c, t)

C2_Witness ==
    /\ last.op = "read"
    /\ Len(synth["P1"]) = 2
    /\ NoClash(synth["P1"])
    /\ last.target = synth["P1"][1].target_name
    /\ ExpectedSource(synth["P1"][1]) # ExpectedSource(synth["P1"][2])
    /\ last.out.kind = "value"

Checks(c) == {k \in 1..Len(trace[c]) : trace[c][k].step = "check"}
Attaches(c) == {k \in 1..Len(trace[c]) : trace[c][k].step = "attach"}

\* C3: in one call of wrapper the capability check runs exactly once and
\* before any member is attached; when the class is no subclass of Portfolio
\* the call raises and the class has exactly the members it had before.
C3_CheckOnceThenAtomicFailure ==
    \A c \in Classes :
        /\ Cardinality(Checks(c)) <= 1
        /\ pc[c] \in {"attaching", "done", "failed"} => Checks(c) = {1}
        /\ Attaches(c) # {} => (Checks(c) = {1} /\ trace[c][1].ok)
        /\ (c \notin PortfolioSubclasses /\ pc[c] \notin {"unvalidated", "validating"}) =>
              /\ pc[c] = "failed"
              /\ members[c] = InitialMembers(c)
              /\ made[c] = <<>>
              /\ ret[c] = Absent

C3_Witness ==
    /\ pc["Q"] = "failed"
    /\ Len(synth["Q"]) = 2
    /\ members["Q"]["a"] = OrigMember
    /\ pc["P1"] = "done"

\* The call of a synthesized method that the last call ran, if any: its
\* steps are the events from "enter" on.
RanMethod == last.op # "none" /\ Len(last.events) >= 3
Entered == last.events[1]
FactoryCall == last.events[2]
Lookup == last.events[3]
Invoked == Len(last.events) = 5
ArgNames == last.events[4]
Invocation == last.events[5]

\* C4: when the resolved companion method declares jitted it receives the
\* caller's jitted (None included) and the caller's extra keyword arguments;
\* when it does not, it receives the caller's extra keyword arguments only.
C4_JittedForwardedIffDeclared ==
    (RanMethod /\ Invoked) =>
        IF "jitted" \in ArgNames.names
        THEN Invocation.kwargs = Entered.args.kwargs \cup {<<"jitted", Entered.args.jitted>>}
        ELSE Invocation.kwargs = Entered.args.kwargs

C4_Witness ==
    /\ last.op = "invoke"
    /\ Invoked
    /\ last.args.jitted = "nb"
    /\ last.args.kwargs # {}
    /\ "jitted" \notin ArgNames.names
    /\ Invocation.kwargs = last.args.kwargs

\* C5: decorating a subclass of Portfolio never raises, whatever source
\* names the entries have; a call raises AttributeError exactly when the
\* companion of that call lacks the name looked up, whatever happened in
\* the calls before it, and returns a value when the companion has it.
C5_MissingSourceFailsThatCallOnly ==
    /\ \A c \in PortfolioSubclasses : pc[c] # "failed"
    /\ RanMethod =>
        /\ (Lookup.name \notin last.shape.methods) <=> (last.out = Raise("AttributeError"))
        /\ (Lookup.name \in last.shape.methods /\ Intact(TypeOf(last.self), last.target))
              => last.out.kind = "value"

C5_Witness ==
    /\ last.op = "invoke"
    /\ last.prev.out = "raise"
    /\ last.out.kind = "value"
    /\ "x" \notin last.shape.methods
    /\ \E i \in 1..Len(synth["P1"]) : ExpectedSource(synth["P1"][i]) = "x"

\* C6: every synthesized method looks up the source name its own entry had
\* when wrapper ran (the target name when source_name was omitted), also
\* with several entries and after config has been changed.
C6_OwnSourceNameCaptured ==
    \A c \in Classes : \A i \in 1..Len(synth[c]) :
        (2 * i - 1 <= Len(made[c])) =>
            /\ made[c][2 * i - 1].source_name_default = ExpectedSource(synth[c][i])
            /\ (RanMethod /\ Entered.f = made[c][2 * i - 1] /\ Entered.args._source_name = Absent)
                  => Lookup.name = ExpectedSource(synth[c][i])

C6_Witness ==
    /\ last.op = "invoke"
    /\ last.mut > 0
    /\ Len(synth["P1"]) = 2
    /\ Len(config) = 2
    /\ config[1].target_name = synth["P1"][1].target_name
    /\ ExpectedSource(config[1]) # ExpectedSource(synth["P1"][1])
    /\ ExpectedSource(synth["P1"][1]) # ExpectedSource(synth["P1"][2])
    /\ RanMethod
    /\ Entered.f = made["P1"][1]
    /\ last.args._source_name = Absent
    /\ Lookup.name = ExpectedSource(synth["P1"][1])

Range(f) == {f[i] : i \in DOMAIN f}
FunctionsOf(c) ==
    {members[c][n] : n \in {k \in MemberNames : members[c][k].kind = "function"}}
        \cup {members[c][n].fget : n \in {k \in MemberNames : members[c][k].kind = "property"}}

\* C7: with one config applied to two classes, each class holds only the
\* function objects made for it, decorating one class leaves the members of
\* the other as they were, a call uses the factory of its own instance only,
\* and config is what it was.
C7_ClassesIndependent ==
    /\ \A c \in Classes :
        /\ FunctionsOf(c) \subseteq Range(made[c])
        /\ pc[c] = "unvalidated" => members[c] = InitialMembers(c)
        /\ pc[c] # "unvalidated" => config = synth[c]
    /\ \A c, d \in Classes : c # d => Range(made[c]) \cap Range(made[d]) = {}
    /\ RanMethod =>
        /\ FactoryCall.self = last.self
        /\ Lookup.on.owner = last.self
        /\ Entered.f \in Range(made[TypeOf(last.self)])

C7_Witness ==
    /\ pc["P1"] = "done"
    /\ pc["P2"] = "done"
    /\ Len(synth["P1"]) = 2
    /\ last.op = "invoke"
    /\ last.self = "p2"
    /\ last.prev.out = "value"
    /\ last.out.kind = "value"

PcSteps ==
    { <<"unvalidated", "validating">>, <<"validating", "attaching">>,
      <<"validating", "failed">>, <<"attaching", "done">> }

\* The k-th attachment of wrapper(c) is the method of item (k+1) \div 2 when
\* k is odd, and the property of item k \div 2 when k is even.
AttachedInOrder(c) ==
    \A k \in 1..(Len(trace[c]) - 1) :
        trace[c][k + 1].step = "attach" =>
            LET item == (k + 1) \div 2
                t == synth[c][item].target_name
            IN  /\ trace[c][k + 1].item = item
                /\ IF k % 2 = 1
                   THEN trace[c][k + 1].what = "method" /\ trace[c][k + 1].name = "get_" \o t
                   ELSE trace[c][k + 1].what = "property" /\ trace[c][k + 1].name = t

\* C8: wrapper moves only unvalidated -> validating -> attaching -> done
\* (or validating -> failed); attaching is entered only after a successful
\* check; items are attached in configuration order, method before property;
\* done is reached from attaching, and wrapper then returns the class given.
C8_DriverStateMachine ==
    /\ [][\A c \in Classes : pc'[c] # pc[c] => <<pc[c], pc'[c]>> \in PcSteps]_vars
    /\ [](\A c \in Classes :
            /\ pc[c] \in {"attaching", "done"} =>
                  (c \in PortfolioSubclasses /\ trace[c][1] = [step |-> "check", ok |-> TRUE])
            /\ AttachedInOrder(c)
            /\ pc[c] = "done" =>
                  /\ ret[c] = c
                  /\ Len(trace[c]) = 2 * Len(synth[c]) + 2
                  /\ trace[c][Len(trace[c])].step = "return"
            /\ pc[c] # "done" => ret[c] = Absent)
    /\ \A c \in Classes : (pc[c] = "attaching") ~> (pc[c] = "done")

C8_Witness ==
    /\ pc["P1"] = "done"
    /\ Len(trace["P1"]) = 6
    /\ ret["P1"] = "P1"
    /\ pc["Q"] = "failed"

\* C9: every run of a synthesized method calls the factory of the instance
\* exactly once, first, with the caller's group_by, benchmark_rets, freq,
\* year_freq and use_asset_returns; the name is looked up on the companion
\* that call returned, and a value returned is the companion method's result.
C9_FactoryOncePerCall ==
    (last.op # "none" /\ last.events # <<>>) =>
        /\ RanMethod
        /\ Entered.ev = "enter"
        /\ {k \in 1..Len(last.events) : last.events[k].ev = "factory"} = {2}
        /\ {k \in 1..Len(last.events) : last.events[k].ev = "getattr"} = {3}
        /\ FactoryCall.self = last.self
        /\ FactoryCall.kw.group_by = Entered.args.group_by
        /\ FactoryCall.kw.benchmark_rets = Entered.args.benchmark_rets
        /\ FactoryCall.kw.freq = Entered.args.freq
        /\ FactoryCall.kw.year_freq = Entered.args.year_freq
        /\ FactoryCall.kw.use_asset_returns = Entered.args.use_asset_returns
        /\ FactoryCall.acc = [owner |-> last.self, kw |-> FactoryCall.kw, shape |-> last.shape]
        /\ Lookup.on = FactoryCall.acc
        /\ Invoked =>
            /\ Invocation.method.on = FactoryCall.acc
            /\ Invocation.method.name = Lookup.name
            /\ Invocation.result.on = FactoryCall.acc
            /\ Invocation.result.result_of = Lookup.name
            /\ last.out.kind = "value" => last.out.v = Invocation.result
            /\ (last.op = "invoke"
                    /\ members[TypeOf(last.self)]["get_" \o last.target].kind = "function")
                  => last.out = Value(Invocation.result)

C9_Witness ==
    /\ last.op = "invoke"
    /\ last.args.freq = "1D"
    /\ last.prev.out = "value"
    /\ last.out.kind = "value"
    /\ last.out.v.on.kw.freq = "1D"
    /\ last.out.v.on.kw.year_freq = None

\* C10: a _source_name given by the caller is never among the keyword
\* arguments the companion method receives; it is the name looked up in that
\* call only, and a call without it looks up the entry's own source name.
C10_SourceNameOverridePerCall ==
    RanMethod =>
        /\ Lookup.name = IF Entered.args._source_name = Absent
                         THEN Entered.f.source_name_default
                         ELSE Entered.args._source_name
        /\ Invoked => \A kv \in Invocation.kwargs : kv[1] # "_source_name"

C10_Witness ==
    /\ last.op = "invoke"
    /\ last.prev.override
    /\ last.prev.out = "value"
    /\ last.args._source_name = Absent
    /\ Invoked
    /\ Lookup.name = "a"
    /\ ExpectedSource(synth["P1"][1]) = "a"

====
